---- MODULE Spec2Model ----
(***************************************************************************)
(* Model of parker.py: the CLI driver (main), the capture engine           *)
(* (capture_screenshots, capture_single), the authentication runner        *)
(* (perform_auth) and the filename sanitizer (sanitize_filename).          *)
(*                                                                         *)
(* A run is one behaviour: main parses the viewport, checks and loads the  *)
(* configuration, capture_screenshots launches the browser, authenticates  *)
(* when needed, walks urls x devices, and main writes the reports and      *)
(* computes the exit code.  The browser engine is the environment: every   *)
(* browser operation that can raise is a nondeterministic choice.          *)
(***************************************************************************)
EXTENDS Naturals, Sequences, FiniteSets, TLC

(* ------------------------------ bounds --------------------------------- *)
\* longest urls list of a configuration
MaxUrls == 2
\* longest auth.steps list of a configuration
MaxSteps == 2

(* --------------------------- program constants ------------------------- *)
EXIT_SUCCESS == 0
EXIT_PARTIAL == 1
EXIT_FAILURE == 2
\* exit status of the interpreter when an exception leaves main()
EXIT_UNCAUGHT == 1
\* Python's None for string-valued fields
None == "<None>"

\* keys of the DEVICES preset table
DEVICES == {"desktop", "laptop", "tablet", "mobile"}

(* ------------------------- sanitize_filename --------------------------- *)
\* Strings are sequences of tokens: alphanumeric words and the separator
\* characters ".", ":", "/", "-", "_".  A url is the result of urlparse.
UnsafeSeparators == {".", ":", "/", "?", "=", "&"}

\* str.replace(old, new) on a token sequence
Replace(s, old, new) == [k \in 1..Len(s) |-> IF s[k] = old THEN new ELSE s[k]]

RECURSIVE LStrip(_, _)
LStrip(s, c) == IF s # <<>> /\ Head(s) = c THEN LStrip(Tail(s), c) ELSE s

RECURSIVE RStrip(_, _)
RStrip(s, c) ==
    IF s # <<>> /\ s[Len(s)] = c THEN RStrip(SubSeq(s, 1, Len(s) - 1), c) ELSE s

\* str.strip(c)
Strip(s, c) == RStrip(LStrip(s, c), c)

\* re.sub(r"[^a-zA-Z0-9\-_]", "-", s)
SubUnsafe(s) == [k \in 1..Len(s) |-> IF s[k] \in UnsafeSeparators THEN "-" ELSE s[k]]

\* re.sub(r"-+", "-", s)
RECURSIVE CollapseDashes(_)
CollapseDashes(s) ==
    IF Len(s) < 2 THEN s
    ELSE IF s[1] = "-" /\ s[2] = "-" THEN CollapseDashes(Tail(s))
    ELSE <<s[1]>> \o CollapseDashes(Tail(s))

\* the text of a token sequence
RECURSIVE Text(_)
Text(s) == IF s = <<>> THEN "" ELSE Head(s) \o Text(Tail(s))

\* str(hash(parsed.query))[-6:], fixed within one process
QueryHash(query) == <<"418093">>

sanitize_filename(url) ==
    LET host == Replace(url.netloc, ":", "-")
        stripped == Replace(Strip(url.path, "/"), "/", "-")
        path0 == IF stripped = <<>> THEN <<"index">> ELSE stripped
        path == IF url.query # <<>> THEN path0 \o <<"-">> \o QueryHash(url.query)
                ELSE path0
        filename == IF path # <<"index">> THEN host \o <<"-">> \o path ELSE host
    IN  Text(Strip(CollapseDashes(SubUnsafe(filename)), "-"))

(* ------------------------------ inputs --------------------------------- *)
Url(scheme, netloc, path) ==
    [scheme |-> scheme, netloc |-> netloc, path |-> path, query |-> <<>>]

\* an absent (None) or empty url: both are falsy
NoUrl == Url("", <<>>, <<>>)

HomeUrl == Url("https", <<"a", ".", "com">>, <<"/">>)
DocsUrl == Url("https", <<"a", ".", "com">>, <<"/", "docs">>)
AdminUrl == Url("https", <<"a", ".", "com", ":", "3000">>, <<"/", "admin", "/">>)
LoginUrl == Url("https", <<"a", ".", "com">>, <<"/", "login">>)

\* one element of config["urls"]: a plain string or a mapping
Entry(isdict, url, name, description, auth, devices, method, data) ==
    [isdict |-> isdict, url |-> url, name |-> name, description |-> description,
     auth |-> auth, devices |-> devices, method |-> method, data |-> data]

StrHome == Entry(FALSE, HomeUrl, None, None, FALSE, <<>>, None, FALSE)
PostHome == Entry(TRUE, HomeUrl, None, None, FALSE, <<>>, "post", TRUE)
DocsDevices ==
    Entry(TRUE, DocsUrl, None, "Docs page", FALSE, <<"desktop", "mobile">>, None, FALSE)
DocsUnknown ==
    Entry(TRUE, DocsUrl, "docs", None, FALSE, <<"mobile", "watch", "tablet">>, None, FALSE)
AdminAuth == Entry(TRUE, AdminUrl, None, None, TRUE, <<>>, "GET", FALSE)
NoUrlAuth == Entry(TRUE, NoUrl, "broken", None, TRUE, <<>>, None, FALSE)
NoUrlPlain == Entry(TRUE, NoUrl, None, None, FALSE, <<"mobile">>, None, FALSE)

Entries == {StrHome, PostHome, DocsDevices, DocsUnknown, AdminAuth, NoUrlAuth, NoUrlPlain}

\* the sequences over S of length at most n
SeqsUpTo(S, n) == UNION {[1..k -> S] : k \in 0..n}

UrlLists == SeqsUpTo(Entries, MaxUrls)

\* the seven kinds of auth step, in the order of a login recipe; the steps
\* lists of the configurations are the prefixes of the recipe
StepRecipe == <<"fill", "goto", "click", "type", "press", "wait_for", "wait">>
StepLists == {SubSeq(StepRecipe, 1, n) : n \in 0..MaxSteps}

\* config["auth"]: absent, or a mapping with an optional url and the steps
NoAuth == [present |-> FALSE, url |-> NoUrl, steps |-> <<>>]
Auths ==
    {NoAuth, [present |-> TRUE, url |-> NoUrl, steps |-> <<"fill">>]}
    \cup {[present |-> TRUE, url |-> LoginUrl, steps |-> s] : s \in StepLists}

\* needs_auth looking at the first entry only
needs_auth_first_entry(urls) == urls # <<>> /\ urls[1].isdict /\ urls[1].auth

\* needs_auth of capture_screenshots
needs_auth(urls) == \E k \in 1..Len(urls) : urls[k].isdict /\ urls[k].auth

\* The values yaml.safe_load can return as a mapping.  capture_screenshots
\* looks at the auth block only under needs_auth, so the configurations that
\* do not need auth are taken without auth block.
Configs ==
    {c \in [urls : UrlLists, auth : Auths] : needs_auth(c.urls) \/ c.auth = NoAuth}

\* config before load_config has returned
NoConfig == [urls |-> <<>>, auth |-> NoAuth]

(* ------------------------------- state --------------------------------- *)
VARIABLES
    pc,                 \* position of the run in main / capture_screenshots
    exitCode,           \* <<>> while running, <<status>> once the process ended
    exitReason,         \* which exit path ended the process
    config,             \* the loaded configuration
    results,            \* results list of capture_screenshots
    i,                  \* index of the current entry of urls (1-based)
    j,                  \* index of the current device of device_list
    stepIdx,            \* index of the current auth step
    authThrew,          \* a browser operation of perform_auth raised
    navCount,           \* number of page.goto calls made so far
    attempts,           \* number of capture_single calls made so far
    defaultRoutes,      \* urls with an interception rule on default_page
    deviceRoutes,       \* urls with an interception rule on the device page
    rewritten,          \* a GET capture went through a leaked POST rule
    browserOpen,        \* the browser process is running
    defaultContexts,    \* number of default contexts created
    openDeviceContexts, \* number of device contexts currently open
    ctxLog,             \* device names of the device contexts created
    manifestWritten,    \* manifest.json was written
    htmlWritten         \* index.html was written

vars == <<pc, exitCode, exitReason, config, results, i, j, stepIdx, authThrew,
          navCount, attempts, defaultRoutes, deviceRoutes, rewritten, browserOpen,
          defaultContexts, openDeviceContexts, ctxLog, manifestWritten, htmlWritten>>

runVars == <<results, i, j, stepIdx, authThrew, navCount, attempts, defaultRoutes,
             deviceRoutes, rewritten, ctxLog, manifestWritten, htmlWritten>>

browserVars == <<browserOpen, defaultContexts, openDeviceContexts>>

Init ==
    /\ pc = "parse_viewport"
    /\ exitCode = <<>>
    /\ exitReason = None
    /\ config = NoConfig
    /\ results = <<>>
    /\ i = 1
    /\ j = 1
    /\ stepIdx = 1
    /\ authThrew = FALSE
    /\ navCount = 0
    /\ attempts = 0
    /\ defaultRoutes = {}
    /\ deviceRoutes = {}
    /\ rewritten = FALSE
    /\ browserOpen = FALSE
    /\ defaultContexts = 0
    /\ openDeviceContexts = 0
    /\ ctxLog = <<>>
    /\ manifestWritten = FALSE
    /\ htmlWritten = FALSE

\* sys.exit(code) in main or before the browser is launched, or an exception
\* leaving main(): the process ends
Exit(code, reason) ==
    /\ pc' = "exit"
    /\ exitCode' = <<code>>
    /\ exitReason' = reason
    /\ UNCHANGED browserVars

\* sys.exit(code) or an exception inside the sync_playwright block: leaving
\* the block shuts the browser and its contexts down, and the process ends
ExitFromBrowser(code, reason) ==
    /\ pc' = "exit"
    /\ exitCode' = <<code>>
    /\ exitReason' = reason
    /\ browserOpen' = FALSE
    /\ openDeviceContexts' = 0
    /\ UNCHANGED defaultContexts

(* -------------------------------- main --------------------------------- *)
\* map(int, args.viewport.lower().split("x")) either unpacks two integers or
\* raises ValueError
ParseViewport ==
    /\ pc = "parse_viewport"
    /\ \E valid \in BOOLEAN :
          IF valid
          THEN /\ pc' = "check_config"
               /\ UNCHANGED <<exitCode, exitReason, browserVars>>
          ELSE Exit(EXIT_FAILURE, "viewport")
    /\ UNCHANGED <<config, runVars>>

ConfigExists ==
    /\ pc = "check_config"
    /\ \E exists \in BOOLEAN :
          IF exists
          THEN /\ pc' = "load_config"
               /\ UNCHANGED <<exitCode, exitReason, browserVars>>
          ELSE Exit(EXIT_FAILURE, "config_missing")
    /\ UNCHANGED <<config, runVars>>

\* what open() and yaml.safe_load can do with an existing file
LoadFailures == {"config_unreadable", "config_parse"}

\* load_config is called outside any try: an exception leaves main()
LoadConfig ==
    /\ pc = "load_config"
    /\ \/ \E failure \in LoadFailures :
             /\ Exit(EXIT_UNCAUGHT, failure)
             /\ UNCHANGED config
       \/ \E c \in Configs :
             /\ config' = c
             /\ pc' = "check_urls"
             /\ UNCHANGED <<exitCode, exitReason, browserVars>>
    /\ UNCHANGED runVars

(* ------------------------- capture_screenshots ------------------------- *)
\* if not urls: sys.exit(EXIT_FAILURE); then mkdir and needs_auth
CheckUrls ==
    /\ pc = "check_urls"
    /\ IF config.urls = <<>>
       THEN Exit(EXIT_FAILURE, "no_urls")
       ELSE /\ pc' = "launch"
            /\ UNCHANGED <<exitCode, exitReason, browserVars>>
    /\ UNCHANGED <<config, runVars>>

\* p.chromium.launch(), browser.new_context(...), default_context.new_page()
Launch ==
    /\ pc = "launch"
    /\ browserOpen' = TRUE
    /\ defaultContexts' = defaultContexts + 1
    /\ pc' = IF needs_auth(config.urls) THEN "auth_check" ELSE "loop"
    /\ UNCHANGED <<exitCode, exitReason, openDeviceContexts, config, runVars>>

\* if needs_auth: if not auth_config: sys.exit(EXIT_FAILURE)
AuthCheck ==
    /\ pc = "auth_check"
    /\ IF ~config.auth.present
       THEN ExitFromBrowser(EXIT_FAILURE, "no_auth_config")
       ELSE /\ pc' = "perform_auth"
            /\ UNCHANGED <<exitCode, exitReason, browserVars>>
    /\ UNCHANGED <<config, runVars>>

(* ----------------------------- perform_auth ---------------------------- *)
\* Without auth.url perform_auth returns False.  Otherwise page.goto(auth_url)
\* runs before the try block of the step loop: if it raises, the exception
\* leaves perform_auth, capture_screenshots and main().
AuthGoto ==
    /\ pc = "perform_auth"
    /\ IF config.auth.url = NoUrl
       THEN /\ ExitFromBrowser(EXIT_FAILURE, "auth_failed")
            /\ UNCHANGED <<navCount, authThrew>>
       ELSE /\ navCount' = navCount + 1
            /\ \E raises \in BOOLEAN :
                 IF raises
                 THEN /\ authThrew' = TRUE
                      /\ ExitFromBrowser(EXIT_UNCAUGHT, "auth_exception")
                 ELSE /\ pc' = "auth_steps"
                      /\ UNCHANGED <<authThrew, exitCode, exitReason, browserVars>>
    /\ UNCHANGED <<config, results, i, j, stepIdx, attempts, defaultRoutes,
                   deviceRoutes, rewritten, ctxLog, manifestWritten, htmlWritten>>

\* one iteration of "for step in steps": the step's browser operation runs
\* inside try; an exception makes perform_auth return False, and
\* capture_screenshots exits with EXIT_FAILURE
AuthStep ==
    /\ pc = "auth_steps"
    /\ stepIdx <= Len(config.auth.steps)
    /\ navCount' = IF config.auth.steps[stepIdx] = "goto" THEN navCount + 1 ELSE navCount
    /\ \E raises \in BOOLEAN :
         IF raises
         THEN /\ authThrew' = TRUE
              /\ ExitFromBrowser(EXIT_FAILURE, "auth_failed")
              /\ UNCHANGED stepIdx
         ELSE /\ stepIdx' = stepIdx + 1
              /\ UNCHANGED <<authThrew, pc, exitCode, exitReason, browserVars>>
    /\ UNCHANGED <<config, results, i, j, attempts, defaultRoutes,
                   deviceRoutes, rewritten, ctxLog, manifestWritten, htmlWritten>>

\* the step loop is over: perform_auth returns True, the cookies are stored
AuthDone ==
    /\ pc = "auth_steps"
    /\ stepIdx > Len(config.auth.steps)
    /\ pc' = "loop"
    /\ UNCHANGED <<exitCode, exitReason, browserVars, config, runVars>>

(* --------------------------- the capture loop -------------------------- *)
\* url of an entry: the entry itself, or entry.get("url")
EntryUrl(entry) == entry.url

\* name = entry.get("name"), None for a string entry
EntryName(entry) == IF entry.isdict THEN entry.name ELSE None

\* description = entry.get("description"), None for a string entry
EntryDescription(entry) == IF entry.isdict THEN entry.description ELSE None

\* requires_auth = entry.get("auth", False), False for a string entry
EntryAuth(entry) == entry.isdict /\ entry.auth

\* device_list = devices if devices else ["default"]
device_list(entry) ==
    IF entry.isdict /\ entry.devices # <<>> THEN entry.devices ELSE <<"default">>

\* str.upper() on the method names of the inputs
Upper(m) == IF m = "post" THEN "POST" ELSE IF m = "get" THEN "GET" ELSE m

\* method = entry.get("method", "GET").upper(), "GET" for a string entry
EntryMethod(entry) ==
    IF entry.isdict /\ entry.method # None THEN Upper(entry.method) ELSE "GET"

\* method == "POST" and post_data: the navigation goes through page.route
UsesRoute(entry) == EntryMethod(entry) = "POST" /\ entry.isdict /\ entry.data

\* "for i, entry in enumerate(urls, 1)": an entry without url is skipped
NextEntry ==
    /\ pc = "loop"
    /\ i <= Len(config.urls)
    /\ IF EntryUrl(config.urls[i]) = NoUrl
       THEN /\ i' = i + 1
            /\ UNCHANGED <<pc, j>>
       ELSE /\ j' = 1
            /\ pc' = "device"
            /\ UNCHANGED i
    /\ UNCHANGED <<exitCode, exitReason, browserVars, config, results, stepIdx,
                   authThrew, navCount, attempts, defaultRoutes, deviceRoutes,
                   rewritten, ctxLog, manifestWritten, htmlWritten>>

\* a lookup that finds a preset for every name
device_known_any(device_name) == TRUE

\* device_config = DEVICES.get(device_name) is truthy
device_known(device_name) == device_name \in DEVICES

\* "for device_name in device_list": the default page, an unknown device
\* (continue), or a fresh context and page for a preset of DEVICES
NextDevice ==
    /\ pc = "device"
    /\ j <= Len(device_list(config.urls[i]))
    /\ LET device_name == device_list(config.urls[i])[j]
       IN  IF device_name = "default"
           THEN /\ pc' = "capture"
                /\ UNCHANGED <<j, openDeviceContexts, ctxLog, deviceRoutes>>
           ELSE IF ~device_known(device_name)
           THEN /\ j' = j + 1
                /\ UNCHANGED <<pc, openDeviceContexts, ctxLog, deviceRoutes>>
           ELSE /\ openDeviceContexts' = openDeviceContexts + 1
                /\ ctxLog' = Append(ctxLog, device_name)
                /\ deviceRoutes' = {}
                /\ pc' = "capture"
                /\ UNCHANGED j
    /\ UNCHANGED <<exitCode, exitReason, browserOpen, defaultContexts, config,
                   results, i, stepIdx, authThrew, navCount, attempts,
                   defaultRoutes, rewritten, manifestWritten, htmlWritten>>

\* the device loop of the entry is over
DevicesDone ==
    /\ pc = "device"
    /\ j > Len(device_list(config.urls[i]))
    /\ i' = i + 1
    /\ pc' = "loop"
    /\ UNCHANGED <<exitCode, exitReason, browserVars, config, results, j, stepIdx,
                   authThrew, navCount, attempts, defaultRoutes, deviceRoutes,
                   rewritten, ctxLog, manifestWritten, htmlWritten>>

(* ---------------------------- capture_single --------------------------- *)
\* str(e) of the exceptions the browser raises
MsgTimeout == "Timeout 30000ms exceeded."
MsgNet == "net::ERR_CONNECTION_REFUSED"
MsgOther == "Target closed"

\* "timeout" in error_msg.lower()
HasTimeout(error_msg) == error_msg = MsgTimeout

\* "net::" in error_msg.lower()
HasNet(error_msg) == error_msg = MsgNet

\* What the browser does during one capture_single: every operation succeeds,
\* or page.goto raises, or an operation after the navigation (wait_for_selector,
\* wait_for_timeout, title, evaluate, screenshot) raises.
Outcomes ==
    {[stage |-> "ok", msg |-> None],
     [stage |-> "goto", msg |-> MsgTimeout],
     [stage |-> "goto", msg |-> MsgNet],
     [stage |-> "after", msg |-> MsgTimeout],
     [stage |-> "after", msg |-> MsgOther]}

\* an except clause that catches timeouts only
except_catches_timeout_only(error_msg) == error_msg = MsgTimeout

\* "except Exception as e" of capture_single: every exception a browser
\* operation raises derives from Exception
except_catches(error_msg) == error_msg \in {MsgTimeout, MsgNet, MsgOther}

\* the except branch of capture_single
classify(error_msg) ==
    IF HasTimeout(error_msg) THEN "timeout"
    ELSE IF HasNet(error_msg) THEN "network_error"
    ELSE "error"

\* the dict capture_single returns
capture_single(entry, outcome) ==
    IF outcome.stage = "ok"
    THEN [status |-> "ok", error |-> None]
    ELSE [status |-> classify(outcome.msg), error |-> outcome.msg]

\* The interception rules of the page when capture_single returns:
\* page.route(url, ...); page.goto(url); page.unroute(url) - unroute is
\* skipped when goto raises.
routes_after(routes, entry, outcome) ==
    IF UsesRoute(entry)
    THEN IF outcome.stage = "goto"
         THEN routes \cup {EntryUrl(entry)}
         ELSE routes \ {EntryUrl(entry)}
    ELSE routes

\* the suffix left empty for every device
suffix_empty(device_name) == ""

\* suffix = "" for the default device, f"-{device_name}" otherwise
suffix(device_name) == IF device_name = "default" THEN "" ELSE "-" \o device_name

\* base_filename = name or sanitize_filename(url)
base_filename(entry) ==
    IF EntryName(entry) # None THEN EntryName(entry)
    ELSE sanitize_filename(EntryUrl(entry))

\* result_entry of capture_screenshots
result_entry(entry, device_name, result) ==
    [url |-> EntryUrl(entry),
     filename |-> base_filename(entry) \o suffix(device_name) \o ".png",
     status |-> result.status,
     auth |-> EntryAuth(entry),
     device |-> IF device_name # "default" THEN device_name ELSE None,
     error |-> IF result.status = "ok" THEN None ELSE result.error,
     description |-> EntryDescription(entry)]

\* capture_single on the page of the device, then results.append(result_entry);
\* the default device goes on to the next device at once.  An exception the
\* except clause does not catch leaves capture_single and main().
Capture ==
    /\ pc = "capture"
    /\ attempts' = attempts + 1
    /\ navCount' = navCount + 1
    /\ LET entry == config.urls[i]
           device_name == device_list(entry)[j]
           onDefault == device_name = "default"
           routes == IF onDefault THEN defaultRoutes ELSE deviceRoutes
       IN  \E outcome \in Outcomes :
             IF outcome.stage # "ok" /\ ~except_catches(outcome.msg)
             THEN /\ ExitFromBrowser(EXIT_UNCAUGHT, "capture_exception")
                  /\ UNCHANGED <<results, rewritten, defaultRoutes, deviceRoutes, j>>
             ELSE /\ results' = Append(results,
                                       result_entry(entry, device_name,
                                                    capture_single(entry, outcome)))
                  /\ rewritten' =
                        (rewritten \/ (~UsesRoute(entry) /\ EntryUrl(entry) \in routes))
                  /\ IF onDefault
                     THEN /\ defaultRoutes' = routes_after(routes, entry, outcome)
                          /\ j' = j + 1
                          /\ pc' = "device"
                          /\ UNCHANGED deviceRoutes
                     ELSE /\ deviceRoutes' = routes_after(routes, entry, outcome)
                          /\ pc' = "close_context"
                          /\ UNCHANGED <<defaultRoutes, j>>
                  /\ UNCHANGED <<exitCode, exitReason, browserVars>>
    /\ UNCHANGED <<config, i, stepIdx, authThrew, ctxLog, manifestWritten, htmlWritten>>

\* a context.close() that runs only after a successful capture
CloseContext_only_after_ok ==
    /\ pc = "close_context"
    /\ openDeviceContexts' =
          IF results[Len(results)].status = "ok"
          THEN openDeviceContexts - 1 ELSE openDeviceContexts
    /\ deviceRoutes' = {}
    /\ j' = j + 1
    /\ pc' = "device"
    /\ UNCHANGED <<exitCode, exitReason, browserOpen, defaultContexts, config,
                   results, i, stepIdx, authThrew, navCount, attempts,
                   defaultRoutes, rewritten, ctxLog, manifestWritten, htmlWritten>>

\* if device_name != "default": context.close()
CloseContext ==
    /\ pc = "close_context"
    /\ openDeviceContexts' = openDeviceContexts - 1
    /\ deviceRoutes' = {}
    /\ j' = j + 1
    /\ pc' = "device"
    /\ UNCHANGED <<exitCode, exitReason, browserOpen, defaultContexts, config,
                   results, i, stepIdx, authThrew, navCount, attempts,
                   defaultRoutes, rewritten, ctxLog, manifestWritten, htmlWritten>>

\* the entry loop is over: browser.close(), return results
CloseBrowser ==
    /\ pc = "loop"
    /\ i > Len(config.urls)
    /\ browserOpen' = FALSE
    /\ pc' = "report"
    /\ UNCHANGED <<exitCode, exitReason, defaultContexts, openDeviceContexts,
                   config, runVars>>

(* ------------------------- reports and exit code ----------------------- *)
\* if args.manifest or args.html: write manifest.json; if args.html: write
\* index.html
WriteReports ==
    /\ pc = "report"
    /\ \E manifest \in BOOLEAN, html \in BOOLEAN :
         /\ manifestWritten' = (manifest \/ html)
         /\ htmlWritten' = html
    /\ pc' = "summary"
    /\ UNCHANGED <<exitCode, exitReason, browserVars, config, results, i, j,
                   stepIdx, authThrew, navCount, attempts, defaultRoutes,
                   deviceRoutes, rewritten, ctxLog>>

\* ok_count = sum(1 for r in results if r["status"] == "ok")
ok_count(rs) == Cardinality({k \in 1..Len(rs) : rs[k].status = "ok"})

\* the exit code without the test for an empty results list
exit_code_no_len_test(rs) ==
    IF ok_count(rs) = 0 THEN EXIT_FAILURE
    ELSE IF ok_count(rs) < Len(rs) THEN EXIT_PARTIAL
    ELSE EXIT_SUCCESS

\* the exit code main computes from the results
exit_code(rs) ==
    IF ok_count(rs) = 0 /\ Len(rs) > 0 THEN EXIT_FAILURE
    ELSE IF ok_count(rs) < Len(rs) THEN EXIT_PARTIAL
    ELSE EXIT_SUCCESS

Summary ==
    /\ pc = "summary"
    /\ Exit(exit_code(results), "summary")
    /\ UNCHANGED <<config, runVars>>

Next ==
    \/ ParseViewport
    \/ ConfigExists
    \/ LoadConfig
    \/ CheckUrls
    \/ Launch
    \/ AuthCheck
    \/ AuthGoto
    \/ AuthStep
    \/ AuthDone
    \/ NextEntry
    \/ NextDevice
    \/ DevicesDone
    \/ Capture
    \/ CloseContext
    \/ CloseBrowser
    \/ WriteReports
    \/ Summary

Spec == Init /\ [][Next]_vars

TypeOK ==
    /\ pc \in {"parse_viewport", "check_config", "load_config", "check_urls",
               "launch", "auth_check", "perform_auth", "auth_steps", "loop",
               "device", "capture", "close_context", "report", "summary", "exit"}
    /\ exitCode \in {<<>>, <<EXIT_SUCCESS>>, <<EXIT_PARTIAL>>, <<EXIT_FAILURE>>}
    /\ config \in Configs \cup {NoConfig}
    /\ Len(results) <= attempts
    /\ openDeviceContexts \in 0..1

(* ------------------------------ properties ----------------------------- *)
\* load_config has returned a mapping
ConfigLoaded ==
    \/ pc \in {"check_urls", "launch", "auth_check", "perform_auth", "auth_steps",
               "loop", "device", "capture", "close_context", "report", "summary"}
    \/ /\ pc = "exit"
       /\ exitReason \in {"no_urls", "no_auth_config", "auth_failed",
                          "auth_exception", "capture_exception", "summary"}

\* capture_screenshots has returned its results to main
Returned == pc \in {"report", "summary"} \/ (pc = "exit" /\ exitReason = "summary")

\* the run reached the end of main
Finished == pc = "exit" /\ exitReason = "summary"

Presets == {"desktop", "laptop", "tablet", "mobile"}

AllOk(rs) == \A k \in 1..Len(rs) : rs[k].status = "ok"
SomeOk(rs) == \E k \in 1..Len(rs) : rs[k].status = "ok"

\* C1: at the end of main the exit code is 0 when every result is ok (the
\* empty list included), 1 when some but not all results are ok, and 2 when
\* no result is ok and there is at least one result.
C1_ExitCodeAggregatesResults ==
    Finished =>
        /\ AllOk(results) => exitCode = <<0>>
        /\ (SomeOk(results) /\ ~AllOk(results)) => exitCode = <<1>>
        /\ (~SomeOk(results) /\ Len(results) > 0) => exitCode = <<2>>

\* a finished run with an ok result and a failed result
C1_Witness ==
    /\ Finished
    /\ SomeOk(results)
    /\ ~AllOk(results)
    /\ exitCode = <<1>>

\* a finished run in which every entry was skipped
C1_WitnessEmpty == Finished /\ results = <<>> /\ config.urls # <<>>

\* C2: whenever a browser operation of the authentication sequence has
\* raised, the run has ended with exit code 2 and no capture was attempted.
C2_AuthThrowIsCriticalFailure ==
    authThrew => (pc = "exit" /\ exitCode = <<2>> /\ attempts = 0)

\* C3: when some entry requires auth and the configuration has no auth block,
\* the run never gets past the auth check: no navigation, no capture and no
\* result ever happens, and the process ends with exit code 2.
C3_MissingAuthBlockIsFatal ==
    (/\ ConfigLoaded
     /\ \E k \in 1..Len(config.urls) : config.urls[k].auth
     /\ ~config.auth.present)
    => /\ navCount = 0
       /\ attempts = 0
       /\ results = <<>>
       /\ \/ pc \in {"check_urls", "launch", "auth_check"}
          \/ pc = "exit" /\ exitCode = <<2>>

\* the run ended at the auth check; the entry requiring auth is the second
C3_Witness ==
    /\ pc = "exit"
    /\ exitReason = "no_auth_config"
    /\ Len(config.urls) = 2
    /\ ~config.urls[1].auth
    /\ config.urls[2].auth

\* C4: a missing config file, an unreadable or unparsable config file and an
\* invalid viewport all end the run with exit code 2, with no capture
\* attempted and no manifest or report written.
C4_ConfigFailureIsFatal ==
    exitReason \in {"viewport", "config_missing", "config_unreadable", "config_parse"}
    => /\ exitCode = <<2>>
       /\ attempts = 0
       /\ ~manifestWritten
       /\ ~htmlWritten

\* number of (device) captures an entry asks for
PairsOf(entry) ==
    IF entry.url = NoUrl THEN 0
    ELSE IF entry.devices = <<>> THEN 1
    ELSE Cardinality({k \in 1..Len(entry.devices) : entry.devices[k] \in Presets})

RECURSIVE NumPairs(_)
NumPairs(urls) == IF urls = <<>> THEN 0 ELSE PairsOf(Head(urls)) + NumPairs(Tail(urls))

\* C5: a failed capture is recorded with its failing status and its message;
\* once a capture has been attempted the run ends only at the end of main;
\* and the results returned count one per (entry with url, recognised
\* device) pair, whichever captures failed.
C5_CaptureFailureNeverStopsRun ==
    /\ \A k \in 1..Len(results) :
          results[k].status # "ok" =>
              /\ results[k].error \in {MsgTimeout, MsgNet, MsgOther}
              /\ results[k].status =
                    (IF results[k].error = MsgTimeout THEN "timeout"
                     ELSE IF results[k].error = MsgNet THEN "network_error"
                     ELSE "error")
    /\ (attempts > 0 /\ pc = "exit") => exitReason = "summary"
    /\ Returned => Len(results) = NumPairs(config.urls)

\* a finished run whose first capture failed and whose later capture ran
C5_Witness ==
    /\ Finished
    /\ Len(results) >= 2
    /\ results[1].status = "timeout"
    /\ results[2].status = "ok"

\* C6: no two results of a run carry the same filename.
C6_FilenamesUnique ==
    \A k, l \in 1..Len(results) : k # l => results[k].filename # results[l].filename

\* what an entry is to produce: one record per recognised device in list
\* order with filename {base}-{device}.png, or one record without device tag
\* and with filename {base}.png when it has no devices list
ExpectedOf(entry) ==
    LET base == IF entry.name # None THEN entry.name ELSE sanitize_filename(entry.url)
        IsPreset(d) == d \in Presets
        listed == SelectSeq(entry.devices, IsPreset)
    IN  IF entry.url = NoUrl THEN <<>>
        ELSE IF entry.devices = <<>>
        THEN <<[url |-> entry.url, description |-> entry.description,
                device |-> None, filename |-> base \o ".png"]>>
        ELSE [k \in 1..Len(listed) |->
                [url |-> entry.url, description |-> entry.description,
                 device |-> listed[k], filename |-> base \o "-" \o listed[k] \o ".png"]]

RECURSIVE Expected(_)
Expected(urls) == IF urls = <<>> THEN <<>> ELSE ExpectedOf(Head(urls)) \o Expected(Tail(urls))

\* url, description, device tag and filename of the results
Produced(rs) ==
    [k \in 1..Len(rs) |->
        [url |-> rs[k].url, description |-> rs[k].description,
         device |-> rs[k].device, filename |-> rs[k].filename]]

RECURSIVE ListedPresets(_)
ListedPresets(urls) ==
    LET IsPreset(d) == d \in Presets
    IN  IF urls = <<>> THEN <<>>
        ELSE (IF Head(urls).url = NoUrl THEN <<>>
              ELSE SelectSeq(Head(urls).devices, IsPreset))
             \o ListedPresets(Tail(urls))

\* C8: no context is created and no result is produced for an unknown device,
\* and every recognised device of the lists, before or after an unknown one,
\* gets its context and its result.
C8_UnknownDeviceSkipped ==
    /\ \A k \in 1..Len(ctxLog) : ctxLog[k] \in Presets
    /\ \A k \in 1..Len(results) : results[k].device \in Presets \cup {None}
    /\ Returned =>
          LET Tagged(r) == r.device # None
              tagged == SelectSeq(results, Tagged)
          IN  /\ ctxLog = ListedPresets(config.urls)
              /\ [k \in 1..Len(tagged) |-> tagged[k].device] = ctxLog

\* a finished run of an entry whose list has an unknown device in the middle
C8_Witness ==
    /\ Finished
    /\ \E k \in 1..Len(config.urls) :
          config.urls[k].devices = <<"mobile", "watch", "tablet">>
    /\ \E k \in 1..Len(results) : results[k].device = "tablet"
    /\ \E k \in 1..Len(results) : results[k].device = "mobile"

\* C9: an entry without url never ends the run: a fatal authentication exit
\* happens only when an entry that has a url requires auth.
C9_UrlLessEntryNeverFatal ==
    (pc = "exit" /\ exitReason \in {"no_auth_config", "auth_failed", "auth_exception"})
    => \E k \in 1..Len(config.urls) :
          config.urls[k].url # NoUrl /\ config.urls[k].auth

\* C10: between captures no interception rule is registered on the default
\* page or on a device page, and no capture without a POST override is served
\* through a rule left by an earlier capture.
C10_NoInterceptionRuleLeaks ==
    /\ defaultRoutes = {}
    /\ deviceRoutes = {}
    /\ ~rewritten

\* number of results that carry a device tag
TaggedResults == Cardinality({k \in 1..Len(results) : results[k].device # None})

\* C11: the default context is created once (never again after the launch)
\* and default-device captures create no context; a device context is open
\* only from its creation to the close that follows the recording of its
\* capture's result, ok or failed; so at most one device context is open at
\* any time and none is open once the browser is closed.
C11_ContextLifecycle ==
    /\ defaultContexts <= 1
    /\ (attempts > 0 \/ Returned) => defaultContexts = 1
    /\ openDeviceContexts <= 1
    /\ openDeviceContexts = 1 => pc \in {"capture", "close_context"}
    /\ pc = "close_context" =>
          /\ openDeviceContexts = 1
          /\ results[Len(results)].device = ctxLog[Len(ctxLog)]
          /\ Len(ctxLog) = TaggedResults
    /\ (pc = "capture" /\ openDeviceContexts = 1) => Len(ctxLog) = TaggedResults + 1
    /\ (pc = "capture" /\ openDeviceContexts = 0) =>
          device_list(config.urls[i])[j] = "default"
    /\ pc \in {"loop", "device", "report", "summary"} => Len(ctxLog) = TaggedResults
    /\ ~browserOpen => openDeviceContexts = 0
    /\ Returned => (openDeviceContexts = 0 /\ ~browserOpen /\ Len(ctxLog) = TaggedResults)

\* a finished run with two device captures, the first of them failed, and a
\* capture on the default context
C11_Witness ==
    /\ Finished
    /\ Len(ctxLog) = 2
    /\ Len(results) = 3
    /\ results[1].device # None
    /\ results[1].status # "ok"
    /\ results[3].device = None
    /\ defaultContexts = 1
    /\ openDeviceContexts = 0
====
